---- MODULE Spec2Model ----
(***************************************************************************)
(* Model of pyadtpulsedotcom.AdtPulsedotcom: the session-backed client of  *)
(* portal.adtpulse.com (async_login, async_update, _send and the three     *)
(* command wrappers).                                                       *)
(*                                                                         *)
(* Every coroutine activation is a frame on the call stack of the task     *)
(* that runs it.  A frame whose pc names an await (a transport request, a  *)
(* body read, a release) is suspended there; the action of that name is    *)
(* the resumption: it draws the transport's answer and runs the code up to *)
(* the next await.  A return or an exception travels to the caller through *)
(* sig; the caller's continuation runs before any other task does, as on   *)
(* an asyncio loop (running holds the task that has not yet suspended).    *)
(*                                                                         *)
(* The websession is the injected collaborator: to every request it gives  *)
(* a response, a transport failure (asyncio.TimeoutError or                *)
(* aiohttp.ClientError) or, inside the timeout block of an enclosing       *)
(* _send, the cancellation of the task.  What it makes of the url argument *)
(* (lines 152 and 171 pass the bound method str.format, line 204 formats a *)
(* URL that has no placeholder) is not modelled.                           *)
(***************************************************************************)
EXTENDS Integers, Sequences, FiniteSets, TLC

VARIABLES login_info, state, stack, sig, running, log, call, result, active, ncalls

vars == <<login_info, state, stack, sig, running, log, call, result, active, ncalls>>

(* ------------------------------ bounds -------------------------------- *)

\* Most answers reporting an expired session (no state element, no message
\* element) the portal gives within one public call, with one caller.
MaxExpiries == 2
\* The same, over both callers, when two callers use the client concurrently.
ConcExpiries == 1
\* Public calls each caller makes when two callers use the client concurrently.
ConcCalls == 1

\* The callers.  When both are active one issues the commands and the other
\* polls and logs in; alone, the first does everything.
Commander == "t1"
Poller == "t2"
Tasks == {Commander, Poller}
\* JSESSIONID values the portal may hand out.
Cookies == {"sidA", "sidB"}
\* Texts the portal may show in the alarm-state element.
StateTexts == {"Disarmed", "Armed Away"}

(* --------------------------- program values --------------------------- *)

None == "None"
NoTask == "none"

\* Local variable `response`: never assigned, or assigned None.
Unbound == -1
NoResponse == 0

Events == {"Disarm", "Arm+Stay", "Arm+Away"}

DISARM_EVENT_VALIDATION ==
    "MnXvTutfO7KZZ1zZ7QR19E0sfvOVCpK7SVyeJ0IkUkbXpfEqLa4fa9PzFK2ydqxNal"
ARM_STAY_EVENT_VALIDATION ==
    "/CwyHTpKH4aUp/pqo5gRwFJmKGubsvmx3RI6nIFcyrtacuqXSy5dMoqBPX3aV2ruxZBTUVxenQ7luwjnNdcsxQW/p+YvHjN9ialbwACZfQsFt2o5"
ARM_AWAY_EVENT_VALIDATION == "3ciB9sbTGyjfsnXn7J4LjfBvdGlkqiHoeh1vPjc5"

DISARM_COMMAND == "Disarm"
ARM_STAY_COMMAND == "Arm Stay"
ARM_AWAY_COMMAND == "Arm Away"

COMMAND_LIST(event) ==
    CASE event = "Disarm"   -> [command |-> DISARM_COMMAND,
                                eventvalidation |-> DISARM_EVENT_VALIDATION]
      [] event = "Arm+Stay" -> [command |-> ARM_STAY_COMMAND,
                                eventvalidation |-> ARM_STAY_EVENT_VALIDATION]
      [] event = "Arm+Away" -> [command |-> ARM_AWAY_COMMAND,
                                eventvalidation |-> ARM_AWAY_EVENT_VALIDATION]

\* Event sent by each public command method.
async_alarm_disarm == "Disarm"
async_alarm_arm_home == "Arm+Stay"
async_alarm_arm_away == "Arm+Away"

Exceptions == {"KeyError", "UnboundLocalError", "CancelledError"}

NoSig == [kind |-> "none", val |-> ""]
Ret(v) == [kind |-> "return", val |-> v]
Exc(e) == [kind |-> "raise", val |-> e]

(* ------------------------------ frames -------------------------------- *)

Frame(fn, pc, event, key, response) ==
    [fn |-> fn, pc |-> pc, event |-> event, key |-> key,
     response |-> response, body |-> "", pend |-> ""]

Depth(t) == Len(stack[t])
Top(t) == stack[t][Len(stack[t])]
Pop(s) == SubSeq(s, 1, Len(s) - 1)
SetTop(s, f) == [s EXCEPT ![Len(s)] = f]

AtPc(t, fn, pc) ==
    /\ Depth(t) > 0
    /\ Top(t).fn = fn
    /\ Top(t).pc = pc


(* --------------------------- transport log ---------------------------- *)
\* What the mock transport of one public call records: one entry per
\* awaited request, body read and release, in program order.

\* What the transport can tell of a response: whether the cookie or the
\* element is there, not its value.
Shape(body) ==
    IF body \in Cookies THEN "cookie"
    ELSE IF body \in StateTexts THEN "state"
    ELSE body

Entry(op, res, rid, body) ==
    [op |-> op, res |-> res, rid |-> rid, body |-> Shape(body), text |-> "",
     token |-> "", label |-> "", value |-> ""]

\* The body read from which a state text was scraped.
ScrapeEntry(rid, text) ==
    [op |-> "TEXT_DASH", res |-> "ok", rid |-> rid, body |-> "state", text |-> text,
     token |-> "", label |-> "", value |-> ""]

PostEntry(event, res, rid, body) ==
    [op |-> "POST_DASH", res |-> res, rid |-> rid, body |-> body, text |-> "",
     token |-> COMMAND_LIST(event).eventvalidation,
     label |-> COMMAND_LIST(event).command,
     value |-> event]

\* Identifier of the response a request is about to open.
NewRid(t) == Len(log[t]) + 1

Requests == {"GET_LOGIN", "POST_LOGIN", "GET_DASH", "POST_DASH"}

\* Answers of t's current public call that reported an expired session.
ExpiriesOf(t) ==
    Cardinality({i \in DOMAIN log[t] : /\ log[t][i].body \in {"nostate", "absent"}
                                        /\ log[t][i].op \in Requests})

Expiries == ExpiriesOf(Commander) + ExpiriesOf(Poller)

Concurrent == Cardinality(active) > 1

Limit == IF Concurrent THEN ConcExpiries ELSE MaxExpiries

(* --------------------------- timeout scope ---------------------------- *)
\* _send keeps its async_timeout block open around everything it calls.
\* The outermost _send started its timer first, so it is the one that
\* expires while an inner coroutine is suspended: the task is cancelled at
\* that await and the CancelledError travels up to the outermost _send.
UnderSendTimeout(t) ==
    /\ Depth(t) > 1
    /\ stack[t][1].fn = "send"

Answers(t) == {"ok", "fail"} \cup (IF UnderSendTimeout(t) THEN {"cancel"} ELSE {})

Quiet(t) == running = NoTask /\ sig[t] = NoSig

(* ------------------------- frame completion --------------------------- *)

\* The top frame ends: its caller (or the public caller) sees s next.
Leave(t, s) ==
    /\ stack' = [stack EXCEPT ![t] = Pop(@)]
    /\ sig' = [sig EXCEPT ![t] = s]
    /\ running' = t

\* The top frame goes on to its next await.
Goto(t, f) ==
    /\ stack' = [stack EXCEPT ![t] = SetTop(@, f)]
    /\ sig' = sig
    /\ running' = NoTask

Logged(t, e) == log' = [log EXCEPT ![t] = Append(@, e)]

(* ------------------------------ Init ---------------------------------- *)

\* Lines 94-108: the client after construction, but for the session li.
InitClient(li) ==
    /\ login_info = li
    /\ state = None
    /\ stack = [t \in Tasks |-> <<>>]
    /\ sig = [t \in Tasks |-> NoSig]
    /\ running = NoTask
    /\ log = [t \in Tasks |-> <<>>]
    /\ call = [t \in Tasks |-> [op |-> "none", event |-> "", li0 |-> None, st0 |-> None]]
    /\ result = [t \in Tasks |-> [done |-> FALSE, kind |-> "none", val |-> ""]]
    /\ ncalls = [t \in Tasks |-> 0]

Init ==
    /\ InitClient(None)
    /\ active = {Commander}

\* Two callers start on a client that is new, or that has logged in before
\* and not refreshed yet.
InitConc ==
    /\ \E li \in {None, "sidA"} : InitClient(li)
    /\ active = Tasks

(* --------------------------- async_login ------------------------------ *)

EnterLogin == <<Frame("login", "login_get", "", "", NoResponse)>>

\* Lines 118-120 and 135-137: the login page GET.
LoginGet(t) ==
    /\ Quiet(t)
    /\ AtPc(t, "login", "login_get")
    /\ UNCHANGED <<login_info, state, call, result, active, ncalls>>
    /\ \E ans \in Answers(t) :
         \/ /\ ans = "ok"
            /\ \E c \in Cookies \cup {"nocookie"} :
                 /\ Logged(t, Entry("GET_LOGIN", "ok", NewRid(t), c))
                 /\ Goto(t, [Top(t) EXCEPT !.pc = "login_text",
                                           !.response = NewRid(t),
                                           !.body = c])
         \/ /\ ans = "fail"
            /\ Logged(t, Entry("GET_LOGIN", "fail", 0, ""))
            /\ Leave(t, Ret("False"))
         \/ /\ ans = "cancel"
            /\ Logged(t, Entry("GET_LOGIN", "cancel", 0, ""))
            /\ Leave(t, Exc("CancelledError"))


MissingCookie_ReturnsFalse(body) == Ret("False")

\* Lines 128-130 and 138-140: response.cookies['JSESSIONID'] on a response
\* without that cookie raises, and the error is not turned into False.
MissingCookie(body) == Exc("KeyError")

StoreSession_Deferred(li, body) == li

StoreSession_ClearsFirst(li, body) == IF body \in Cookies THEN body ELSE None

\* Lines 128-130: self._login_info = {'sessionkey': <cookie value>}; without
\* the cookie the lookup raises before anything is assigned.
StoreSession(li, body) == IF body \in Cookies THEN body ELSE li

\* Lines 125-133: the body is read, then the cookie becomes the session.
LoginText(t) ==
    /\ Quiet(t)
    /\ AtPc(t, "login", "login_text")
    /\ UNCHANGED <<state, call, result, active, ncalls>>
    /\ \E ans \in Answers(t) :
         \/ /\ ans = "ok"
            /\ Logged(t, Entry("TEXT_LOGIN", "ok", Top(t).response, Top(t).body))
            /\ login_info' = StoreSession(login_info, Top(t).body)
            /\ IF Top(t).body \in Cookies
                 THEN Goto(t, [Top(t) EXCEPT !.pc = "login_post"])
                 ELSE Leave(t, MissingCookie(Top(t).body))
         \/ /\ ans = "fail"
            /\ Logged(t, Entry("TEXT_LOGIN", "fail", Top(t).response, Top(t).body))
            /\ login_info' = login_info
            /\ Leave(t, Ret("False"))
         \/ /\ ans = "cancel"
            /\ Logged(t, Entry("TEXT_LOGIN", "cancel", Top(t).response, Top(t).body))
            /\ login_info' = login_info
            /\ Leave(t, Exc("CancelledError"))

\* Lines 153-155: after the credentials POST the function ends without a
\* return statement.
LoginDone == Ret("None")

\* Lines 148-159: the credentials POST; its response is not read.
LoginPost(t) ==
    /\ Quiet(t)
    /\ AtPc(t, "login", "login_post")
    /\ UNCHANGED <<login_info, state, call, result, active, ncalls>>
    /\ \E ans \in Answers(t) :
         \/ /\ ans = "ok"
            /\ Logged(t, Entry("POST_LOGIN", "ok", NewRid(t), ""))
            /\ Leave(t, LoginDone)
         \/ /\ ans = "fail"
            /\ Logged(t, Entry("POST_LOGIN", "fail", 0, ""))
            /\ Leave(t, Ret("False"))
         \/ /\ ans = "cancel"
            /\ Logged(t, Entry("POST_LOGIN", "cancel", 0, ""))
            /\ Leave(t, Exc("CancelledError"))

(* --------------------------- async_update ----------------------------- *)

EnterUpdate_AlwaysLogin(li) ==
    <<Frame("update", "upd_after_login", "", "", NoResponse)>> \o EnterLogin

\* Lines 165-171: response = None, log in first when there is no session,
\* then the dashboard GET.
EnterUpdate(li) ==
    IF li = None
      THEN <<Frame("update", "upd_after_login", "", "", NoResponse)>> \o EnterLogin
      ELSE <<Frame("update", "upd_get", "", "", NoResponse)>>

UpdProceeds_OnSuccess(s) == s = Ret("None")

\* Line 167: the value async_login returns is discarded; only an exception
\* keeps async_update from going on to its try block.
UpdProceeds(s) == s.kind = "return"

\* Line 167: the login called before the try block has ended.
UpdAfterLogin(t) ==
    /\ running = t
    /\ sig[t] # NoSig
    /\ AtPc(t, "update", "upd_after_login")
    /\ UNCHANGED <<login_info, state, log, call, result, active, ncalls>>
    /\ IF UpdProceeds(sig[t])
         THEN /\ stack' = [stack EXCEPT ![t] = SetTop(@, [Top(t) EXCEPT !.pc = "upd_get"])]
              /\ sig' = [sig EXCEPT ![t] = NoSig]
              /\ running' = NoTask
         ELSE Leave(t, sig[t])

UpdGetFailed_Unbound == Exc("UnboundLocalError")

\* Lines 186-191: the failed dashboard GET is logged and False returned; the
\* finally block finds response None and releases nothing.
UpdGetFailed == Ret("False")

\* Lines 169-171 and 186-191: the dashboard GET.  The answer that lacks the
\* state element is drawn only below the bound on such answers.
UpdGet(t) ==
    /\ Quiet(t)
    /\ AtPc(t, "update", "upd_get")
    /\ UNCHANGED <<login_info, state, call, result, active, ncalls>>
    /\ \E ans \in Answers(t) :
         \/ /\ ans = "ok"
            /\ \E b \in StateTexts \cup {"nostate"} :
                 /\ b = "nostate" => Expiries < Limit
                 /\ Logged(t, Entry("GET_DASH", "ok", NewRid(t), b))
                 /\ Goto(t, [Top(t) EXCEPT !.pc = "upd_text",
                                           !.response = NewRid(t),
                                           !.body = b])
         \/ /\ ans = "fail"
            /\ Logged(t, Entry("GET_DASH", "fail", 0, ""))
            /\ Leave(t, UpdGetFailed)
         \/ /\ ans = "cancel"
            /\ Logged(t, Entry("GET_DASH", "cancel", 0, ""))
            /\ Leave(t, Exc("CancelledError"))

ScrapedState_Lost(text) == None

\* Line 178: self.state = tree.select(ALARM_STATE)[0].get_text()
ScrapedState(text) == text

ScrapeFailedState_Stale(st) == st

\* Line 183: the state after a scrape that found no state element.
ScrapeFailedState(st) == None

\* Line 184: the session after a scrape that found no state element.
ScrapeFailedSession(li) == None

\* Lines 174-188: read the body and scrape the state element; without it,
\* clear state and session and call async_update again.
UpdText(t) ==
    /\ Quiet(t)
    /\ AtPc(t, "update", "upd_text")
    /\ UNCHANGED <<call, result, active, ncalls>>
    /\ \E ans \in Answers(t) :
         \/ /\ ans = "ok"
            /\ Top(t).body \in StateTexts
            /\ Logged(t, ScrapeEntry(Top(t).response, Top(t).body))
            /\ state' = ScrapedState(Top(t).body)
            /\ login_info' = login_info
            /\ Goto(t, [Top(t) EXCEPT !.pc = "upd_release", !.pend = "None"])
         \/ /\ ans = "ok"
            /\ Top(t).body = "nostate"
            /\ Logged(t, Entry("TEXT_DASH", "ok", Top(t).response, Top(t).body))
            /\ state' = ScrapeFailedState(state)
            /\ login_info' = ScrapeFailedSession(login_info)
            /\ stack' = [stack EXCEPT ![t] =
                           SetTop(@, [Top(t) EXCEPT !.pc = "upd_after_retry"])
                             \o EnterUpdate(login_info')]
            /\ sig' = sig
            /\ running' = NoTask
         \/ /\ ans = "fail"
            /\ Logged(t, Entry("TEXT_DASH", "fail", Top(t).response, Top(t).body))
            /\ UNCHANGED <<state, login_info>>
            /\ Goto(t, [Top(t) EXCEPT !.pc = "upd_release", !.pend = "False"])
         \/ /\ ans = "cancel"
            /\ Logged(t, Entry("TEXT_DASH", "cancel", Top(t).response, Top(t).body))
            /\ UNCHANGED <<state, login_info>>
            /\ Goto(t, [Top(t) EXCEPT !.pc = "upd_release", !.pend = "CancelledError"])

\* Line 185: the recursive async_update has ended; its value is dropped, its
\* exception goes on after the finally block.
UpdAfterRetry(t) ==
    /\ running = t
    /\ sig[t] # NoSig
    /\ AtPc(t, "update", "upd_after_retry")
    /\ UNCHANGED <<login_info, state, log, call, result, active, ncalls>>
    /\ stack' = [stack EXCEPT ![t] =
                   SetTop(@, [Top(t) EXCEPT
                                !.pc = "upd_release",
                                !.pend = IF sig[t].kind = "return" THEN "None"
                                                                 ELSE sig[t].val])]
    /\ sig' = [sig EXCEPT ![t] = NoSig]
    /\ running' = NoTask

UpdRelease_Skipped(t) ==
    /\ Quiet(t)
    /\ AtPc(t, "update", "upd_release")
    /\ UNCHANGED <<login_info, state, log, call, result, active, ncalls>>
    /\ Leave(t, IF Top(t).pend \in Exceptions THEN Exc(Top(t).pend) ELSE Ret(Top(t).pend))

\* Lines 189-191: the finally block releases the response, then the
\* function returns or the pending exception goes on.
UpdRelease(t) ==
    /\ Quiet(t)
    /\ AtPc(t, "update", "upd_release")
    /\ UNCHANGED <<login_info, state, call, result, active, ncalls>>
    /\ Logged(t, Entry("RELEASE", "ok", Top(t).response, ""))
    /\ Leave(t, IF Top(t).pend \in Exceptions THEN Exc(Top(t).pend) ELSE Ret(Top(t).pend))

(* ------------------------------- _send -------------------------------- *)

\* Lines 201-209: the URL is formatted with self._login_info['sessionkey']
\* before the POST is awaited; `response` is not assigned before the try.
EnterSend(event, li) == <<Frame("send", "send_post", event, li, Unbound)>>

\* Lines 225-230: the public method called again after the re-login.
Redispatch(event) ==
    CASE event = "Disarm"   -> async_alarm_disarm
      [] event = "Arm+Stay" -> async_alarm_arm_away
      [] event = "Arm+Away" -> async_alarm_arm_away

\* Lines 202 and 232-233: an exception that reaches the _send frame at
\* depth i from a coroutine it called.  The frame whose timer expired turns
\* the cancellation into a TimeoutError, which it catches; anything else
\* goes on after the finally block.
PendingInSend(i, e) ==
    IF e = "CancelledError" /\ i = 1 THEN "None" ELSE e

ReleaseUnbound_Swallowed == Ret("None")

\* Lines 234-236 reached with `response` never assigned.
ReleaseUnbound == Exc("UnboundLocalError")

\* Lines 202-212 and 232-236: the dashboard POST.  The answer that
\* lacks the message element is drawn only below the bound on such answers.
SendPost(t) ==
    /\ Quiet(t)
    /\ AtPc(t, "send", "send_post")
    /\ UNCHANGED <<login_info, state, call, result, active, ncalls>>
    /\ \E ans \in Answers(t) :
         \/ /\ ans = "ok"
            /\ \E b \in {"absent", "command", "other"} :
                 /\ b = "absent" => Expiries < Limit
                 /\ Logged(t, PostEntry(Top(t).event, "ok", NewRid(t), b))
                 /\ Goto(t, [Top(t) EXCEPT !.pc = "send_text",
                                           !.key = "",
                                           !.response = NewRid(t),
                                           !.body = b])
         \/ /\ ans = "fail"
            /\ Logged(t, PostEntry(Top(t).event, "fail", 0, ""))
            /\ Leave(t, ReleaseUnbound)
         \/ /\ ans = "cancel"
            /\ Logged(t, PostEntry(Top(t).event, "cancel", 0, ""))
            /\ Leave(t, ReleaseUnbound)

Acknowledges_Never(body) == FALSE

\* Line 218: if 'command' in message
Acknowledges(body) == body = "command"

\* Lines 213-224: read the body and look for the message element.
SendText(t) ==
    /\ Quiet(t)
    /\ AtPc(t, "send", "send_text")
    /\ UNCHANGED <<login_info, state, call, result, active, ncalls>>
    /\ \E ans \in Answers(t) :
         \/ /\ ans = "ok"
            /\ Top(t).body # "absent"
            /\ Acknowledges(Top(t).body)
            /\ Logged(t, Entry("TEXT_POST", "ok", Top(t).response, Top(t).body))
            /\ stack' = [stack EXCEPT ![t] =
                           SetTop(@, [Top(t) EXCEPT !.pc = "send_after_update"])
                             \o EnterUpdate(login_info)]
            /\ sig' = sig
            /\ running' = NoTask
         \/ /\ ans = "ok"
            /\ Top(t).body # "absent"
            /\ ~Acknowledges(Top(t).body)
            /\ Logged(t, Entry("TEXT_POST", "ok", Top(t).response, Top(t).body))
            /\ Goto(t, [Top(t) EXCEPT !.pc = "send_release", !.pend = "None"])
         \/ /\ ans = "ok"
            /\ Top(t).body = "absent"
            /\ Logged(t, Entry("TEXT_POST", "ok", Top(t).response, Top(t).body))
            /\ stack' = [stack EXCEPT ![t] =
                           SetTop(@, [Top(t) EXCEPT !.pc = "send_after_login"])
                             \o EnterLogin]
            /\ sig' = sig
            /\ running' = NoTask
         \/ /\ ans = "fail"
            /\ Logged(t, Entry("TEXT_POST", "fail", Top(t).response, Top(t).body))
            /\ Goto(t, [Top(t) EXCEPT !.pc = "send_release", !.pend = "None"])
         \/ /\ ans = "cancel"
            /\ Logged(t, Entry("TEXT_POST", "cancel", Top(t).response, Top(t).body))
            /\ Goto(t, [Top(t) EXCEPT !.pc = "send_release",
                                      !.pend = PendingInSend(Depth(t), "CancelledError")])

\* The _send frame goes to its finally block with p pending.
SendFinally(t, p) ==
    /\ stack' = [stack EXCEPT ![t] =
                   SetTop(@, [Top(t) EXCEPT !.pc = "send_release", !.pend = p])]
    /\ sig' = [sig EXCEPT ![t] = NoSig]
    /\ running' = NoTask

\* Line 221: the async_update called after an acknowledged command ended.
SendAfterUpdate(t) ==
    /\ running = t
    /\ sig[t] # NoSig
    /\ AtPc(t, "send", "send_after_update")
    /\ UNCHANGED <<login_info, state, log, call, result, active, ncalls>>
    /\ SendFinally(t, IF sig[t].kind = "return" THEN "None"
                      ELSE PendingInSend(Depth(t), sig[t].val))

Redispatches_OnSuccess(s) == s = Ret("None")

\* Lines 224-225: the value async_login returns is discarded; only an
\* exception keeps _send from calling the command method again.
Redispatches(s) == s.kind = "return"

\* Lines 224-230: the re-login ended; whatever it returned, the command
\* method is called again.
SendAfterLogin(t) ==
    /\ running = t
    /\ sig[t] # NoSig
    /\ AtPc(t, "send", "send_after_login")
    /\ UNCHANGED <<login_info, state, log, call, result, active, ncalls>>
    /\ IF ~Redispatches(sig[t])
         THEN SendFinally(t, IF sig[t].kind = "raise"
                               THEN PendingInSend(Depth(t), sig[t].val)
                               ELSE "None")
         ELSE IF login_info = None
           THEN SendFinally(t, PendingInSend(Depth(t), ReleaseUnbound.val))
           ELSE /\ stack' = [stack EXCEPT ![t] =
                               SetTop(@, [Top(t) EXCEPT !.pc = "send_after_redispatch"])
                                 \o EnterSend(Redispatch(Top(t).event), login_info)]
                /\ sig' = [sig EXCEPT ![t] = NoSig]
                /\ running' = NoTask

\* Lines 225-230: the re-dispatched command ended.
SendAfterRedispatch(t) ==
    /\ running = t
    /\ sig[t] # NoSig
    /\ AtPc(t, "send", "send_after_redispatch")
    /\ UNCHANGED <<login_info, state, log, call, result, active, ncalls>>
    /\ SendFinally(t, IF sig[t].kind = "return" THEN "None"
                      ELSE PendingInSend(Depth(t), sig[t].val))

\* Lines 234-236: the finally block releases the response.
SendRelease(t) ==
    /\ Quiet(t)
    /\ AtPc(t, "send", "send_release")
    /\ UNCHANGED <<login_info, state, call, result, active, ncalls>>
    /\ Logged(t, Entry("RELEASE", "ok", Top(t).response, ""))
    /\ Leave(t, IF Top(t).pend \in Exceptions THEN Exc(Top(t).pend) ELSE Ret(Top(t).pend))

(* ---------------------------- public calls ---------------------------- *)

\* Concurrent callers are followed for ConcCalls public calls each.
Idle(t) ==
    /\ t \in active
    /\ Concurrent => ncalls[t] < ConcCalls
    /\ running = NoTask
    /\ sig[t] = NoSig
    /\ stack[t] = <<>>

Begin(t, op, event) ==
    /\ call' = [call EXCEPT ![t] = [op |-> op, event |-> event,
                                    li0 |-> login_info, st0 |-> state]]
    /\ result' = [result EXCEPT ![t] = [done |-> FALSE, kind |-> "none", val |-> ""]]
    /\ log' = [log EXCEPT ![t] = <<>>]
    /\ ncalls' = IF Concurrent THEN [ncalls EXCEPT ![t] = @ + 1] ELSE ncalls
    /\ UNCHANGED <<login_info, state, active>>

\* The application awaits async_login().
CallLogin(t) ==
    /\ Idle(t)
    /\ Concurrent => t = Poller
    /\ Begin(t, "login", "")
    /\ stack' = [stack EXCEPT ![t] = EnterLogin]
    /\ UNCHANGED <<sig, running>>

\* The application awaits async_update().
CallUpdate(t) ==
    /\ Idle(t)
    /\ Concurrent => t = Poller
    /\ Begin(t, "refresh", "")
    /\ stack' = [stack EXCEPT ![t] = EnterUpdate(login_info)]
    /\ UNCHANGED <<sig, running>>

\* The application awaits async_alarm_disarm(), async_alarm_arm_home() or
\* async_alarm_arm_away().  Without a session the subscript of None raises
\* before any request, and the finally block raises in turn.
CallCommand(t) ==
    /\ Idle(t)
    /\ Concurrent => t = Commander
    /\ \E event \in {async_alarm_disarm, async_alarm_arm_home, async_alarm_arm_away} :
         /\ Begin(t, "command", event)
         /\ IF login_info = None
              THEN /\ sig' = [sig EXCEPT ![t] = ReleaseUnbound]
                   /\ running' = t
                   /\ stack' = stack
              ELSE /\ stack' = [stack EXCEPT ![t] = EnterSend(event, login_info)]
                   /\ UNCHANGED <<sig, running>>

\* The public call has ended: the application sees its value or exception.
Complete(t) ==
    /\ running = t
    /\ sig[t] # NoSig
    /\ stack[t] = <<>>
    /\ result' = [result EXCEPT ![t] = [done |-> TRUE, kind |-> sig[t].kind,
                                        val |-> sig[t].val]]
    /\ sig' = [sig EXCEPT ![t] = NoSig]
    /\ running' = NoTask
    /\ UNCHANGED <<login_info, state, stack, log, call, active, ncalls>>

(* --------------------------- specifications --------------------------- *)

Next ==
    \E t \in Tasks :
        \/ CallLogin(t)
        \/ CallUpdate(t)
        \/ CallCommand(t)
        \/ LoginGet(t)
        \/ LoginText(t)
        \/ LoginPost(t)
        \/ UpdAfterLogin(t)
        \/ UpdGet(t)
        \/ UpdText(t)
        \/ UpdAfterRetry(t)
        \/ UpdRelease(t)
        \/ SendPost(t)
        \/ SendText(t)
        \/ SendAfterUpdate(t)
        \/ SendAfterLogin(t)
        \/ SendAfterRedispatch(t)
        \/ SendRelease(t)
        \/ Complete(t)

\* One caller at a time: each public call is awaited before the next.
Spec == Init /\ [][Next]_vars

\* Two callers on the same client and event loop.
SpecConc == InitConc /\ [][Next]_vars

(* ------------------------- reading the record ------------------------- *)

Done(t) == result[t].done

MaxOf(S) == CHOOSE x \in S : \A y \in S : y <= x
MinOf(S) == CHOOSE x \in S : \A y \in S : x <= y

\* Entries of t's record with operation op and result res.
Where(t, op, res) ==
    {i \in DOMAIN log[t] : log[t][i].op = op /\ log[t][i].res = res}

\* Transport requests issued in t's call.
RequestsOf(t) == {i \in DOMAIN log[t] : log[t][i].op \in Requests}

\* Responses opened in t's call.
Opened(t) == {i \in RequestsOf(t) : log[t][i].res = "ok"}

\* Releases of response r in t's call.
Releases(t, r) == {i \in DOMAIN log[t] : log[t][i].op = "RELEASE" /\ log[t][i].rid = r}

\* Dashboard scrapes of t's call that found no state element.
ScrapeFails(t) == {i \in Where(t, "TEXT_DASH", "ok") : log[t][i].body = "nostate"}

\* Dashboard scrapes of t's call that found the state element.
Scrapes(t) == {i \in Where(t, "TEXT_DASH", "ok") : log[t][i].body = "state"}

\* Command responses of t's call that lacked the message element.
LoggedOut(t) == {i \in Where(t, "TEXT_POST", "ok") : log[t][i].body = "absent"}

\* The last thing t's call awaited, releases aside, was a transport failure.
EndedOnFailure(t) ==
    \E i \in DOMAIN log[t] :
        /\ log[t][i].res = "fail"
        /\ \A j \in DOMAIN log[t] : j > i => log[t][j].op = "RELEASE"

(* ------------------------------ claims -------------------------------- *)

\* C1: a public refresh_state() whose dashboard scrape yields no state
\* element performs, from that failure on, exactly one login and exactly one
\* further dashboard GET before it returns, whatever the portal answers.
C1_ExactlyOneRetry ==
    \A t \in Tasks :
        (Done(t) /\ call[t].op = "refresh" /\ result[t].kind = "return"
           /\ ScrapeFails(t) # {})
        => LET f == MinOf(ScrapeFails(t)) IN
             /\ Cardinality({i \in DOMAIN log[t] : i > f /\ log[t][i].op = "GET_LOGIN"}) = 1
             /\ Cardinality({i \in DOMAIN log[t] : i > f /\ log[t][i].op = "GET_DASH"}) = 1

\* C2: a public command call whose POST answer lacks the message element
\* logs in and re-dispatches once, not again and again: when it has ended it
\* has made no more than one login and one re-dispatch POST, and has issued
\* at most 4 transport requests in all.
C2_BoundedRedispatch ==
    \A t \in Tasks :
        (Done(t) /\ call[t].op = "command" /\ LoggedOut(t) # {})
        => /\ Cardinality({i \in RequestsOf(t) : log[t][i].op = "GET_LOGIN"}) <= 1
           /\ Cardinality({i \in RequestsOf(t) : log[t][i].op = "POST_DASH"}) <= 2
           /\ Cardinality(RequestsOf(t)) <= 4

\* C3: every dashboard POST of one public command call, the re-dispatch
\* after a re-login included, carries the token and the label of the command
\* that was called.
C3_SameCommand ==
    \A t \in Tasks :
        call[t].op = "command"
        => \A i \in DOMAIN log[t] :
             log[t][i].op = "POST_DASH"
             => /\ log[t][i].token = COMMAND_LIST(call[t].event).eventvalidation
                /\ log[t][i].label = COMMAND_LIST(call[t].event).command
                /\ log[t][i].value = call[t].event

\* C4: when a public call has returned or raised, every response it opened
\* has been released exactly once.
C4_ReleasedOnce ==
    \A t \in Tasks :
        Done(t) => \A r \in Opened(t) : Cardinality(Releases(t, r)) = 1

\* C5: a public call that ends on a transport failure returns normally; no
\* exception crosses the public boundary.
C5_FailureHandledLocally ==
    \A t \in Tasks :
        (Done(t) /\ EndedOnFailure(t)) => result[t].kind = "return"

\* C6: with concurrent callers, at most one public operation is in flight
\* at a time.
C6_SingleFlight ==
    Cardinality({t \in Tasks : call[t].op # "none" /\ ~Done(t)}) <= 1

\* C7: right after a scrape that found no state element, state and session
\* are both cleared; and when a call in which that happened has ended, the
\* state is the text scraped after the last such failure, or unknown.
C7_NeverStale ==
    \A t \in Tasks :
        /\ (log[t] # <<>> /\ Len(log[t]) \in ScrapeFails(t))
           => (state = None /\ login_info = None)
        /\ (Done(t) /\ ScrapeFails(t) # {})
           => LET f == MaxOf(ScrapeFails(t))
                  later == {i \in Scrapes(t) : i > f}
              IN  IF later = {} THEN state = None
                  ELSE state = log[t][MaxOf(later)].text

C7_Witness ==
    \E t \in Tasks :
        /\ Done(t)
        /\ call[t].op = "refresh"
        /\ call[t].st0 \in StateTexts
        /\ ScrapeFails(t) # {}
        /\ state \in StateTexts
        /\ state # call[t].st0

\* C8: once a login has completed its credentials POST the session is
\* active; async_update calls login exactly when there is no session, so a
\* refresh_state() that starts with a session goes straight to the
\* dashboard GET.
C8_LoginOnlyWithoutSession ==
    \A t \in Tasks :
        /\ (log[t] # <<>> /\ Len(log[t]) \in Where(t, "POST_LOGIN", "ok"))
           => login_info # None
        /\ \A i \in 2..Depth(t) :
             (stack[t][i - 1].fn = "update" /\ stack[t][i].fn = "login"
                /\ stack[t][i].pc = "login_get")
             => login_info = None
        /\ (call[t].op = "refresh" /\ log[t] = <<>> /\ Depth(t) > 0)
           => (Top(t).fn = "login" <=> call[t].li0 = None)
        /\ (call[t].op = "refresh" /\ log[t] # <<>>)
           => (log[t][1].op = "GET_LOGIN" <=> call[t].li0 = None)

C8_Witness ==
    \E t \in Tasks :
        /\ Done(t)
        /\ call[t].op = "refresh"
        /\ call[t].li0 # None
        /\ log[t][1].op = "GET_DASH"
        /\ \A i \in DOMAIN log[t] : log[t][i].op # "GET_LOGIN"

\* C9: a public login() that returns gives true when the GET (with cookie)
\* and the credentials POST both completed, and false when either failed;
\* it gives nothing else.
C9_LoginReturnsBoolean ==
    \A t \in Tasks :
        (Done(t) /\ call[t].op = "login" /\ result[t].kind = "return")
        => /\ result[t].val \in {"True", "False"}
           /\ result[t].val = "True" <=> Where(t, "POST_LOGIN", "ok") # {}

\* C10: when the login page was read and its response carries no session
\* cookie, nothing but releases is awaited afterwards (no credentials POST),
\* the KeyError is on its way to the caller, and the call ends by raising it.
C10_MissingCookieRaises ==
    \A t \in Tasks :
        \A i \in Where(t, "TEXT_LOGIN", "ok") :
            log[t][i].body = "nocookie"
            => /\ \A j \in DOMAIN log[t] : j > i => log[t][j].op = "RELEASE"
               /\ Done(t) => (result[t].kind = "raise" /\ result[t].val = "KeyError")
               /\ (~Done(t) /\ sig[t] # NoSig) => sig[t] = Exc("KeyError")
               /\ (~Done(t) /\ sig[t] = NoSig)
                  => (Depth(t) > 0 /\ Top(t).pend = "KeyError")

C10_Witness ==
    \E t \in Tasks :
        /\ Done(t)
        /\ call[t].op = "login"
        /\ result[t].kind = "raise"
        /\ result[t].val = "KeyError"
        /\ Len(log[t]) = 2
        /\ log[t][2].op = "TEXT_LOGIN"
        /\ log[t][2].body = "nocookie"

\* The first dashboard GET of t's call, the one refresh_state() itself issues.
FirstDashGet(t) ==
    MinOf({i \in DOMAIN log[t] : log[t][i].op = "GET_DASH"})

\* t's call is a refresh_state() whose own dashboard GET failed.
RefreshGetFailed(t) ==
    /\ call[t].op = "refresh"
    /\ \E i \in DOMAIN log[t] : log[t][i].op = "GET_DASH"
    /\ log[t][FirstDashGet(t)].res = "fail"

\* C11: when the dashboard GET of a public refresh_state() fails with a
\* timeout or a connection error, nothing more is requested, the call
\* returns (False) without raising, and the state is the one the call
\* started with, whatever that state was and whether the call started with
\* a session or had to attempt a login first.
C11_GetFailureKeepsState ==
    \A t \in Tasks :
        RefreshGetFailed(t) =>
            /\ FirstDashGet(t) = Len(log[t])
            /\ state = call[t].st0
            /\ stack[t] = <<>>
            /\ IF Done(t)
                 THEN result[t].kind = "return" /\ result[t].val = "False"
                 ELSE sig[t] = Ret("False")

\* A refresh that started with a known state and no session, attempted the
\* login, and then had its dashboard GET fail.
C11_Witness ==
    /\ Done(Commander)
    /\ RefreshGetFailed(Commander)
    /\ call[Commander].li0 = None
    /\ call[Commander].st0 \in StateTexts
    /\ FirstDashGet(Commander) > 1

\* Command responses of t's call whose message element acknowledges.
Acked(t) == {i \in Where(t, "TEXT_POST", "ok") : log[t][i].body = "command"}

\* Command responses of t's call whose message element does not acknowledge.
NotAcked(t) == {i \in Where(t, "TEXT_POST", "ok") : log[t][i].body = "other"}

\* What follows the reading of a command response: after an acknowledgement
\* the next thing the call does is the dashboard GET of async_update, and the
\* call cannot end before it; after any other message nothing but releases.
RefreshFollowsAck(t) ==
    /\ \A i \in Acked(t) :
          /\ ~Done(t) \/ Len(log[t]) > i
          /\ Len(log[t]) > i => log[t][i + 1].op = "GET_DASH"
          /\ Len(log[t]) = i =>
                /\ AtPc(t, "update", "upd_get")
                /\ stack[t][Depth(t) - 1].pc = "send_after_update"
    /\ \A i \in NotAcked(t) :
          /\ \A j \in DOMAIN log[t] : j > i => log[t][j].op = "RELEASE"
          /\ Len(log[t]) = i => AtPc(t, "send", "send_release")

LoginPostFailed(t) ==
    /\ call[t].op = "login"
    /\ Where(t, "POST_LOGIN", "fail") # {}

\* C14: a login() whose GET succeeded and stored the session, and whose
\* credentials POST then fails, returns False with the session still set:
\* from the storing of the cookie to the end of the call the session is the
\* cookie.  A refresh_state() or a command that starts with a session set
\* does not log in first: its first request is the dashboard's.
C14_PostFailureKeepsSession ==
    \A t \in Tasks :
        /\ AtPc(t, "login", "login_post") => login_info = Top(t).body
        /\ LoginPostFailed(t) =>
              /\ login_info \in Cookies
              /\ IF Done(t)
                   THEN result[t].kind = "return" /\ result[t].val = "False"
                   ELSE sig[t] = Ret("False")
        /\ (call[t].op \in {"refresh", "command"} /\ call[t].li0 # None /\ log[t] # <<>>) =>
              log[t][1].op = (IF call[t].op = "refresh" THEN "GET_DASH" ELSE "POST_DASH")

\* A login() that started without a session and has returned after its
\* credentials POST failed.
C14_Witness ==
    /\ Done(Commander)
    /\ LoginPostFailed(Commander)
    /\ call[Commander].li0 = None

\* C15: a command whose dashboard POST fails with a transport failure ends
\* with accepted = false, that is it returns, and without a retry: no further
\* transport request, session and state as they were.
C15_PostFailureReturns ==
    \A t \in Tasks :
        (call[t].op = "command" /\ log[t] # <<>> /\ log[t][1].res = "fail") =>
            /\ Len(log[t]) = 1
            /\ login_info = call[t].li0
            /\ state = call[t].st0
            /\ Done(t) => result[t].kind = "return"

\* Dashboard responses async_update obtained in t's call.
DashOpened(t) == Where(t, "GET_DASH", "ok")

\* C16: every dashboard response a refresh_state() obtains, the responses of
\* its recursive recovery included, is released at most once while the call
\* runs and exactly once by the time the outermost call has ended, on
\* whichever path it ended.
C16_DashboardReleasedOnce ==
    \A t \in Tasks :
        \A i \in DashOpened(t) :
            /\ Cardinality(Releases(t, log[t][i].rid)) <= 1
            /\ Done(t) => Cardinality(Releases(t, log[t][i].rid)) = 1

\* A refresh that went through the recovery branch, obtained two dashboard
\* responses and has ended.
C16_Witness ==
    /\ Done(Commander)
    /\ call[Commander].op = "refresh"
    /\ ScrapeFails(Commander) # {}
    /\ Cardinality(DashOpened(Commander)) = 2

\* C17: a command called with no session does not log in first: it issues
\* no transport request and calls nothing, ends with an error that reaches
\* the caller, and leaves session and state as they were.
C17_CommandWithoutSessionRaises ==
    \A t \in Tasks :
        (call[t].op = "command" /\ call[t].li0 = None) =>
            /\ log[t] = <<>>
            /\ stack[t] = <<>>
            /\ login_info = None
            /\ state = call[t].st0
            /\ IF Done(t) THEN result[t].kind = "raise" ELSE sig[t].kind = "raise"

\* A command called without a session, with a state known, has ended.
C17_Witness ==
    /\ Done(Commander)
    /\ call[Commander].op = "command"
    /\ call[Commander].li0 = None
    /\ call[Commander].st0 \in StateTexts

\* Entries of t's call at which the login of a command's logged-out recovery
\* returned False: a failed login request or body read that follows a
\* command response without the message element.
RecoveryLoginFails(t) ==
    {j \in DOMAIN log[t] :
        /\ log[t][j].res = "fail"
        /\ \/ log[t][j].op = "GET_LOGIN" /\ j - 1 \in LoggedOut(t)
           \/ log[t][j].op = "TEXT_LOGIN" /\ j - 2 \in LoggedOut(t)
           \/ log[t][j].op = "POST_LOGIN" /\ j - 3 \in LoggedOut(t)}

\* The step in which the login called by a command's recovery fails at its GET.
RecoveryLoginGetFails(t) ==
    /\ AtPc(t, "login", "login_get")
    /\ Depth(t) > 1
    /\ stack[t][Depth(t) - 1].pc = "send_after_login"
    /\ sig'[t] = Ret("False")

\* The step in which _send resumes after the login of its recovery returned.
RecoveryLoginReturned(t) ==
    /\ running = t
    /\ AtPc(t, "send", "send_after_login")
    /\ sig[t].kind = "return"
    /\ stack'[t] # stack[t]

\* C18: in the logged-out recovery of a command the command is dispatched
\* again after login() whatever login() returned.  When the re-login returns
\* False the next request of the call is still a dashboard POST; the POST is
\* that of the command the recovery maps to and carries the session id the
\* store holds at that moment, which is the one from before the re-login
\* when the login GET failed.
C18_RedispatchWhateverLogin ==
    /\ [](\A t \in Tasks : \A j \in RecoveryLoginFails(t) :
            /\ ~Done(t) \/ Len(log[t]) > j
            /\ Len(log[t]) > j => log[t][j + 1].op = "POST_DASH")
    /\ [][\A t \in Tasks :
            /\ RecoveryLoginGetFails(t) => login_info' = login_info
            /\ RecoveryLoginReturned(t) =>
                  /\ login_info # None
                  /\ Len(stack'[t]) = Depth(t) + 1
                  /\ stack'[t][Depth(t)].pc = "send_after_redispatch"
                  /\ stack'[t][Depth(t) + 1] =
                       Frame("send", "send_post", Redispatch(Top(t).event),
                             login_info, Unbound)]_vars

\* A command has ended whose re-login failed at the GET and whose
\* re-dispatched POST was answered.
C18_Witness ==
    /\ Done(Commander)
    /\ \E j \in RecoveryLoginFails(Commander) :
         /\ log[Commander][j].op = "GET_LOGIN"
         /\ log[Commander][j + 1].op = "POST_DASH"
         /\ log[Commander][j + 1].res = "ok"

\* Entries of t's call at which the login a session-less refresh_state()
\* starts with returned False.
FirstLoginFails(t) ==
    {j \in DOMAIN log[t] :
        /\ call[t].op = "refresh"
        /\ call[t].li0 = None
        /\ j <= 3
        /\ log[t][j].op \in {"GET_LOGIN", "TEXT_LOGIN", "POST_LOGIN"}
        /\ log[t][j].res = "fail"}

\* C19: a refresh_state() started without a session issues its dashboard
\* GET after the login attempt whatever login() returned: when it returned
\* False the GET is the next request, sent with no session if the login
\* got no cookie, and the call neither stops there nor reports the failure:
\* a scrape that then succeeds makes the call return None.
C19_DashboardGetAfterFailedLogin ==
    \A t \in Tasks :
        \A j \in FirstLoginFails(t) :
            /\ ~Done(t) \/ Len(log[t]) > j
            /\ Len(log[t]) > j => log[t][j + 1].op = "GET_DASH"
            /\ (Len(log[t]) = j /\ sig[t] = NoSig) =>
                  /\ AtPc(t, "update", "upd_get")
                  /\ Depth(t) = 1
                  /\ log[t][j].op # "POST_LOGIN" => login_info = None
            /\ (Done(t) /\ Scrapes(t) # {} /\ ScrapeFails(t) = {}) =>
                  result[t].kind = "return" /\ result[t].val = "None"

\* A refresh without a session whose login GET failed has scraped a state
\* all the same and ended, still without a session.
C19_Witness ==
    /\ Done(Commander)
    /\ FirstLoginFails(Commander) = {1}
    /\ Scrapes(Commander) # {}
    /\ login_info = None
    /\ state \in StateTexts

\* t's call is a login() that ended before a cookie was stored: the GET
\* failed, the body could not be read, or the response had no cookie.
LoginWithoutCookie(t) ==
    /\ call[t].op = "login"
    /\ log[t] # <<>>
    /\ \/ log[t][1].res = "fail"
       \/ Len(log[t]) > 1 /\ log[t][2].res = "fail"
       \/ Len(log[t]) > 1 /\ log[t][2].res = "ok" /\ log[t][2].body = "nocookie"

\* C20: a login() that ends without a new cookie, by a transport failure of
\* its GET or by the missing-cookie error, leaves the session store as it
\* was when the call started, set or not.
C20_NoCookieKeepsSession ==
    \A t \in Tasks :
        LoginWithoutCookie(t) =>
            /\ login_info = call[t].li0
            /\ stack[t] = <<>>
            /\ Done(t) => \/ result[t].kind = "return" /\ result[t].val = "False"
                          \/ result[t].kind = "raise" /\ result[t].val = "KeyError"

\* A login() started with a session has ended on the missing-cookie error.
C20_Witness ==
    /\ Done(Commander)
    /\ LoginWithoutCookie(Commander)
    /\ call[Commander].li0 \in Cookies
    /\ result[Commander].kind = "raise"

====
